---- MODULE Spec2Model ----
(***************************************************************************)
(* Model of package auth (serv/auth): the strategy selector                *)
(* NewAuthHandlerFunc, the middleware constructor NewAuth and the handler  *)
(* it returns, the Simple and Header strategies, and the identity          *)
(* accessors IsAuth / UserID / UserIDInt.                                  *)
(*                                                                         *)
(* Go strings are TLA+ strings; a string that is parsed is taken apart by  *)
(* StrChars.  An error value is a record [id, msg]: id is the identity Go  *)
(* compares with ==, msg the pieces of its text.  A context.Context is a   *)
(* record [nil, origin, vals]: vals maps each key to <<>> (no value) or    *)
(* <<v>>, v a typed value [t, s].                                          *)
(***************************************************************************)
EXTENDS Integers, Sequences, FiniteSets, TLC

VARIABLES
    phase,          \* "boot" | "ready" (NewAuth returned a decorator) | "failed"
    ac,             \* the Auth config NewAuth was called with
    log,            \* TRUE iff the *zap.Logger passed to NewAuth is non-nil
    opt,            \* Options
    hFn,            \* the variadic hFn: <<>> | <<NilHandler>> | <<ExtHandler>>
    h,              \* the HandlerFunc the decorator closes over
    wsAuthSupported,
    newAuthErr,     \* the error NewAuth returned
    selectorCalls,  \* number of calls of NewAuthHandlerFunc
    reqs,           \* per worker: the request being served by the decorated handler
    acc,            \* a caller's call of an identity accessor
    rem             \* a call of remoteAPI.Resolve

vars == <<phase, ac, log, opt, hFn, h, wsAuthSupported, newAuthErr,
          selectorCalls, reqs, acc, rem>>

(***************************************************************************)
(* Errors                                                                  *)
(***************************************************************************)
NilErr == [id |-> "nil", msg |-> <<>>]

ErrNoAuthDefined == [id |-> "ErrNoAuthDefined", msg |-> <<"no auth defined">>]

Err401 == [id |-> "Err401", msg |-> <<"401 unauthorized">>]

\* fmt.Errorf: a fresh error value, identical to no sentinel
Errorf(parts) == [id |-> "fmt", msg |-> parts]

(***************************************************************************)
(* Auth config                                                             *)
(***************************************************************************)
HeaderConfigs ==
    [Name : {"", "X-Api-Key"}, Value : {"", "secret"}, Exists : BOOLEAN]

ZeroHeader == [Name |-> "", Value |-> "", Exists |-> FALSE]

AuthTypes == {"", "none", "header", "jwt", "rails", "magiclink"}

\* CapabilityOK stands for the Rails / JWT sub-configuration being one the
\* capability constructor accepts.
AuthConfigs ==
    [Development : BOOLEAN, Name : {"app"}, Type : AuthTypes,
     Header : HeaderConfigs, CapabilityOK : BOOLEAN]

OptionsSet == [AuthFailBlock : BOOLEAN]

(***************************************************************************)
(* HandlerFunc values: the closure's kind and what it captured             *)
(***************************************************************************)
NilHandler == [kind |-> "nil", hdr |-> ZeroHeader]

ExtHandler == [kind |-> "ext", hdr |-> ZeroHeader]

Result(hf, e) == [h |-> hf, err |-> e]

SimpleHandler(a) == Result([kind |-> "simple", hdr |-> ZeroHeader], NilErr)

HeaderHandlerExactlyOne(a) ==
    IF a.Header.Name = ""
    THEN Result(NilHandler, Errorf(<<"auth '", a.Name, "': no header.name defined">>))
    ELSE IF a.Header.Exists = (a.Header.Value # "")
    THEN Result(NilHandler, Errorf(<<"auth '", a.Name, "': no header.value defined">>))
    ELSE Result([kind |-> "header", hdr |-> a.Header], NilErr)

HeaderHandler(a) ==
    IF a.Header.Name = ""
    THEN Result(NilHandler, Errorf(<<"auth '", a.Name, "': no header.name defined">>))
    ELSE IF ~a.Header.Exists /\ a.Header.Value = ""
    THEN Result(NilHandler, Errorf(<<"auth '", a.Name, "': no header.value defined">>))
    ELSE Result([kind |-> "header", hdr |-> a.Header], NilErr)

\* The capability constructors: a strategy, or a construction failure.
RailsHandler(a) ==
    IF a.CapabilityOK
    THEN Result([kind |-> "rails", hdr |-> ZeroHeader], NilErr)
    ELSE Result(NilHandler, Errorf(<<"rails: invalid config">>))

JwtHandler(a) ==
    IF a.CapabilityOK
    THEN Result([kind |-> "jwt", hdr |-> ZeroHeader], NilErr)
    ELSE Result(NilHandler, Errorf(<<"jwt: invalid config">>))

\* the inner switch on ac.Type, and the wrapping of a constructor's error
SelectByType(a) ==
    LET r == CASE a.Type = "rails"  -> RailsHandler(a)
               [] a.Type = "jwt"    -> JwtHandler(a)
               [] a.Type = "header" -> HeaderHandler(a)
               [] OTHER             -> Result(NilHandler, NilErr)
    IN  IF a.Type \in {"", "none"}
        THEN Result(NilHandler, ErrNoAuthDefined)
        ELSE IF a.Type \notin {"rails", "jwt", "header"}
        THEN Result(NilHandler, Errorf(<<"auth: unknown auth type: ", a.Type>>))
        ELSE IF r.err # NilErr
        THEN Result(NilHandler, Errorf(<<a.Type, ": ">> \o r.err.msg))
        ELSE r

NewAuthHandlerFuncIgnoreDevelopment(a) == SelectByType(a)

NewAuthHandlerFuncUnknownAsNoAuth(a) ==
    IF a.Development THEN SimpleHandler(a)
    ELSE IF a.Type \notin {"rails", "jwt", "header"}
    THEN Result(NilHandler, ErrNoAuthDefined)
    ELSE SelectByType(a)

NewAuthHandlerFunc(a) ==
    IF a.Development THEN SimpleHandler(a) ELSE SelectByType(a)

(***************************************************************************)
(* Strings that are parsed, character by character                         *)
(***************************************************************************)
StrChars(s) ==
    CASE s = ""    -> <<>>
      [] s = "42"  -> <<"4", "2">>
      [] s = "7"   -> <<"7">>
      [] s = "-7"  -> <<"-", "7">>
      [] s = "abc" -> <<"a", "b", "c">>

Digits == <<"0", "1", "2", "3", "4", "5", "6", "7", "8", "9">>

IsDigit(ch) == \E i \in 1..10 : Digits[i] = ch

DigitVal(ch) == (CHOOSE i \in 1..10 : Digits[i] = ch) - 1

RECURSIVE DecimalValue(_)
DecimalValue(cs) ==
    IF cs = <<>> THEN 0
    ELSE 10 * DecimalValue(SubSeq(cs, 1, Len(cs) - 1)) + DigitVal(cs[Len(cs)])

\* strconv.Atoi: an optional sign, then one or more decimal digits
Atoi(s) ==
    LET cs     == StrChars(s)
        signed == cs # <<>> /\ cs[1] \in {"+", "-"}
        ds     == IF signed THEN Tail(cs) ELSE cs
    IN  IF ds = <<>> \/ \E i \in 1..Len(ds) : ~IsDigit(ds[i])
        THEN [ok |-> FALSE, n |-> 0]
        ELSE [ok |-> TRUE,
              n  |-> IF signed /\ cs[1] = "-" THEN 0 - DecimalValue(ds)
                     ELSE DecimalValue(ds)]

(***************************************************************************)
(* context.Context                                                         *)
(***************************************************************************)
UserIDProviderKey == "UserIDProviderKey"

UserIDKey == "UserIDKey"

UserRoleKey == "UserRoleKey"

CtxKeys == {UserIDProviderKey, UserIDKey, UserRoleKey}

EmptyVals == [k \in CtxKeys |-> <<>>]

NilCtx == [nil |-> TRUE, origin |-> "", vals |-> EmptyVals]

\* the context a request arrives with: it carries no identity
RequestCtx(w) == [nil |-> FALSE, origin |-> w, vals |-> EmptyVals]

StringVal(s) == [t |-> "string", s |-> s]

IntVal(s) == [t |-> "int", s |-> s]

WithValue(c, key, v) == [c EXCEPT !.vals[key] = <<v>>]

\* c.Value(key): <<>> is the nil interface
Value(c, key) == c.vals[key]

(***************************************************************************)
(* Identity accessors.  On a nil context c.Value(...) is a nil             *)
(* dereference: the accessor panics.                                       *)
(***************************************************************************)
AccessorPanics(c) == c.nil

IsAuth(c) == Value(c, UserIDKey) # <<>>

UserID(c) == Value(c, UserIDKey)

UserIDInt(c) ==
    LET v == UserID(c)
    IN  IF v = <<>> \/ v[1].t # "string" THEN -1
        ELSE IF Atoi(v[1].s).ok THEN Atoi(v[1].s).n
        ELSE -1

(***************************************************************************)
(* Requests                                                                *)
(***************************************************************************)
HeaderNames ==
    {"X-Api-Key", "X-User-ID", "X-User-ID-Provider", "X-User-Role",
     "Connection", "Upgrade"}

\* a header is <<>> when absent, <<v>> when present with value v
MkHeader(api, uid, prov, role, conn, upg) ==
    [n \in HeaderNames |->
        CASE n = "X-Api-Key"          -> api
          [] n = "X-User-ID"          -> uid
          [] n = "X-User-ID-Provider" -> prov
          [] n = "X-User-Role"        -> role
          [] n = "Connection"         -> conn
          [] n = "Upgrade"            -> upg]

RequestHeaders ==
    { MkHeader(<<>>, <<>>, <<>>, <<>>, <<>>, <<>>),
      MkHeader(<<>>, <<"42">>, <<>>, <<>>, <<>>, <<>>),
      MkHeader(<<>>, <<"-7">>, <<"github">>, <<"admin">>, <<>>, <<>>),
      MkHeader(<<>>, <<"abc">>, <<>>, <<>>, <<>>, <<>>),
      MkHeader(<<>>, <<"">>, <<>>, <<"admin">>, <<>>, <<>>),
      MkHeader(<<>>, <<>>, <<"github">>, <<>>, <<>>, <<>>),
      MkHeader(<<"secret">>, <<>>, <<>>, <<>>, <<>>, <<>>),
      MkHeader(<<"secret">>, <<"42">>, <<>>, <<>>, <<>>, <<>>),
      MkHeader(<<"other">>, <<>>, <<>>, <<>>, <<>>, <<>>),
      MkHeader(<<"">>, <<>>, <<>>, <<>>, <<>>, <<>>),
      MkHeader(<<>>, <<>>, <<>>, <<>>, <<"Upgrade">>, <<"websocket">>),
      MkHeader(<<"secret">>, <<"42">>, <<>>, <<>>, <<"Upgrade">>, <<"websocket">>),
      MkHeader(<<"other">>, <<>>, <<>>, <<>>, <<"Upgrade">>, <<"websocket">>),
      MkHeader(<<>>, <<"7">>, <<>>, <<>>, <<"Upgrade">>, <<>>) }

\* r.Header.Get(name)
HeaderGet(hd, name) ==
    IF name \in DOMAIN hd /\ hd[name] # <<>> THEN hd[name][1] ELSE ""

HeaderPresent(hd, name) == name \in DOMAIN hd /\ hd[name] # <<>>

\* websocket.IsWebSocketUpgrade(r)
IsWebSocketUpgrade(r) ==
    /\ HeaderGet(r.Header, "Connection") = "Upgrade"
    /\ HeaderGet(r.Header, "Upgrade") = "websocket"

ZeroRequest ==
    [Header |-> MkHeader(<<>>, <<>>, <<>>, <<>>, <<>>, <<>>), ctx |-> NilCtx]

WithContextKeepsOld(r, c) == r

\* r.WithContext(c)
WithContext(r, c) == [r EXCEPT !.ctx = c]

(***************************************************************************)
(* The strategies: what a call h(w, r) may return, as a set of [c, err]    *)
(***************************************************************************)
Ret(c, e) == [c |-> c, err |-> e]

\* an error that is not the Err401 sentinel
ErrOther == [id |-> "other", msg |-> <<"store unreachable">>]

SetIfPresent(c, key, v) == IF v # "" THEN WithValue(c, key, StringVal(v)) ELSE c

SimpleFuncDropsUserID(r) ==
    LET c1 == SetIfPresent(r.ctx, UserIDProviderKey,
                           HeaderGet(r.Header, "X-User-ID-Provider"))
    IN  Ret(SetIfPresent(c1, UserRoleKey, HeaderGet(r.Header, "X-User-Role")), NilErr)

\* the closure reads the headers through a variable all requests share
SimpleFuncSharedRequest(r) ==
    LET hd == reqs[CHOOSE w \in DOMAIN reqs : TRUE].r.Header
        c1 == SetIfPresent(r.ctx, UserIDProviderKey, HeaderGet(hd, "X-User-ID-Provider"))
        c2 == SetIfPresent(c1, UserIDKey, HeaderGet(hd, "X-User-ID"))
    IN  Ret(SetIfPresent(c2, UserRoleKey, HeaderGet(hd, "X-User-Role")), NilErr)

\* the closure SimpleHandler returns
SimpleFunc(r) ==
    LET c1 == SetIfPresent(r.ctx, UserIDProviderKey,
                           HeaderGet(r.Header, "X-User-ID-Provider"))
        c2 == SetIfPresent(c1, UserIDKey, HeaderGet(r.Header, "X-User-ID"))
    IN  Ret(SetIfPresent(c2, UserRoleKey, HeaderGet(r.Header, "X-User-Role")), NilErr)

\* a configured Value is compared first, Exists only without one
HeaderFuncValueFirst(hdr, r) ==
    LET value == HeaderGet(r.Header, hdr.Name)
        fo1   == IF hdr.Value # "" THEN value # hdr.Value ELSE value = ""
    IN  IF fo1 THEN Ret(NilCtx, Err401) ELSE Ret(NilCtx, NilErr)

\* the closure HeaderHandler returns
HeaderFunc(hdr, r) ==
    LET value == HeaderGet(r.Header, hdr.Name)
        fo1   == IF hdr.Exists THEN value = "" ELSE value # hdr.Value
    IN  IF fo1 THEN Ret(NilCtx, Err401) ELSE Ret(NilCtx, NilErr)

\* Rails / JWT: identity on a valid credential, Err401 on an invalid or
\* missing one, another error on a transport or parse failure
CapabilityResults(r) ==
    { Ret(WithValue(r.ctx, UserIDKey, StringVal("42")), NilErr),
      Ret(NilCtx, Err401),
      Ret(NilCtx, ErrOther) }

\* an externally supplied HandlerFunc: any context with any error
ExternalResults(r) ==
    { Ret(c, e) :
        c \in { NilCtx, r.ctx,
                WithValue(r.ctx, UserIDKey, StringVal("42")),
                WithValue(r.ctx, UserIDKey, IntVal("7")) },
        e \in { NilErr, Err401, ErrOther } }

StrategyResults(hf, r) ==
    CASE hf.kind = "simple" -> { SimpleFunc(r) }
      [] hf.kind = "header" -> { HeaderFunc(hf.hdr, r) }
      [] hf.kind \in {"rails", "jwt"} -> CapabilityResults(r)
      [] hf.kind = "ext"    -> ExternalResults(r)

(***************************************************************************)
(* The decorated handler (the closure NewAuth returns, applied to next)    *)
(***************************************************************************)
Unauthorized == 401

IdleReq ==
    [pc |-> "idle", r |-> ZeroRequest, c |-> NilCtx, err |-> NilErr,
     strategyCalls |-> 0, logged |-> <<>>, nextCalls |-> 0,
     nextReq |-> ZeroRequest, status |-> 0, body |-> "", panicked |-> FALSE]

BypassesNever(ws, r) == FALSE

BypassesAnyUpgrade(ws, r) == IsWebSocketUpgrade(r)

\* wsAuthSupported && websocket.IsWebSocketUpgrade(r)
Bypasses(ws, r) == ws /\ IsWebSocketUpgrade(r)

DecisionIgnoresSentinel(o, c, e) ==
    IF o.AuthFailBlock /\ AccessorPanics(c) THEN "panic"
    ELSE IF o.AuthFailBlock /\ ~IsAuth(c) THEN "reject"
    ELSE "forward"

DecisionIgnoresFailBlock(o, c, e) ==
    IF e = Err401 THEN "reject" ELSE "forward"

\* what the handler does with the strategy's (c, err)
Decision(o, c, e) ==
    IF e = Err401 THEN "reject"
    ELSE IF o.AuthFailBlock /\ AccessorPanics(c) THEN "panic"
    ELSE IF o.AuthFailBlock /\ ~IsAuth(c) THEN "reject"
    ELSE "forward"

\* http.Error(w, "401 unauthorized", http.StatusUnauthorized)
HttpError(q, msg, code) == [q EXCEPT !.status = code, !.body = msg, !.pc = "done"]

\* next.ServeHTTP(w, r) without the return that follows it
ServeNextNoReturn(q, r) == [q EXCEPT !.nextCalls = @ + 1, !.nextReq = r]

\* next.ServeHTTP(w, r)
ServeNext(q, r) ==
    [q EXCEPT !.nextCalls = @ + 1, !.nextReq = r, !.pc = "done"]

Requests(w) == [Header : RequestHeaders, ctx : {RequestCtx(w)}]

\* a request enters the decorated handler
Serve(w) ==
    /\ phase = "ready"
    /\ reqs[w].pc \in {"idle", "done"}
    /\ \E r \in Requests(w) :
          reqs' = [reqs EXCEPT ![w] = [IdleReq EXCEPT !.pc = "entry", !.r = r]]
    /\ UNCHANGED <<phase, ac, log, opt, hFn, h, wsAuthSupported, newAuthErr,
                   selectorCalls, acc, rem>>

Bypass(w) ==
    /\ reqs[w].pc = "entry"
    /\ Bypasses(wsAuthSupported, reqs[w].r)
    /\ reqs' = [reqs EXCEPT ![w] = ServeNext(@, @.r)]
    /\ UNCHANGED <<phase, ac, log, opt, hFn, h, wsAuthSupported, newAuthErr,
                   selectorCalls, acc, rem>>

\* c, err := h(w, r), and the log.Error that follows it
Authenticate(w) ==
    /\ reqs[w].pc = "entry"
    /\ ~Bypasses(wsAuthSupported, reqs[w].r)
    /\ \E res \in StrategyResults(h, reqs[w].r) :
          reqs' = [reqs EXCEPT ![w] =
                     [@ EXCEPT !.pc = "decide", !.c = res.c, !.err = res.err,
                               !.strategyCalls = @ + 1,
                               !.logged = IF res.err # NilErr /\ log
                                          THEN Append(@, [type |-> ac.Type,
                                                          err |-> res.err])
                                          ELSE @]]
    /\ UNCHANGED <<phase, ac, log, opt, hFn, h, wsAuthSupported, newAuthErr,
                   selectorCalls, acc, rem>>

Reject(w) ==
    /\ reqs[w].pc = "decide"
    /\ Decision(opt, reqs[w].c, reqs[w].err) = "reject"
    /\ reqs' = [reqs EXCEPT ![w] = HttpError(@, "401 unauthorized", Unauthorized)]
    /\ UNCHANGED <<phase, ac, log, opt, hFn, h, wsAuthSupported, newAuthErr,
                   selectorCalls, acc, rem>>

\* IsAuth(c) on a nil c: the handler's goroutine panics
Panic(w) ==
    /\ reqs[w].pc = "decide"
    /\ Decision(opt, reqs[w].c, reqs[w].err) = "panic"
    /\ reqs' = [reqs EXCEPT ![w] = [@ EXCEPT !.panicked = TRUE, !.pc = "done"]]
    /\ UNCHANGED <<phase, ac, log, opt, hFn, h, wsAuthSupported, newAuthErr,
                   selectorCalls, acc, rem>>

Forward(w) ==
    /\ reqs[w].pc = "decide"
    /\ Decision(opt, reqs[w].c, reqs[w].err) = "forward"
    /\ reqs' = [reqs EXCEPT ![w] =
                  IF ~reqs[w].c.nil
                  THEN ServeNext(@, WithContext(@.r, @.c))
                  ELSE ServeNext(@, @.r)]
    /\ UNCHANGED <<phase, ac, log, opt, hFn, h, wsAuthSupported, newAuthErr,
                   selectorCalls, acc, rem>>

(***************************************************************************)
(* A caller of the identity accessors (a downstream handler or any other   *)
(* code of the application), with any context                              *)
(***************************************************************************)
IdleAcc ==
    [pc |-> "idle", fn |-> "", c |-> NilCtx,
     retBool |-> FALSE, retVal |-> <<>>, retInt |-> 0, panicked |-> FALSE]

CallerContexts ==
    {NilCtx} \cup
    [nil : {FALSE}, origin : {"caller"},
     vals : { v \in [CtxKeys -> { <<>>, <<StringVal("")>>, <<StringVal("42")>>,
                                  <<StringVal("7")>>, <<StringVal("-7")>>,
                                  <<StringVal("abc")>>, <<StringVal("github")>>,
                                  <<IntVal("7")>> }] :
                /\ v[UserIDProviderKey] \in { <<>>, <<StringVal("github")>> }
                /\ v[UserRoleKey] \in { <<>>, <<StringVal("abc")>> }
                /\ v[UserIDKey] # <<StringVal("github")>> }]

CallAccessor ==
    /\ acc.pc \in {"idle", "done"}
    /\ \E fn \in {"IsAuth", "UserID", "UserIDInt"}, c \in CallerContexts :
          acc' = [IdleAcc EXCEPT !.pc = "called", !.fn = fn, !.c = c]
    /\ UNCHANGED <<phase, ac, log, opt, hFn, h, wsAuthSupported, newAuthErr,
                   selectorCalls, reqs, rem>>

AccessorReturns ==
    /\ acc.pc = "called"
    /\ ~AccessorPanics(acc.c)
    /\ acc' = [acc EXCEPT
                 !.pc = "done",
                 !.retBool = IF acc.fn = "IsAuth" THEN IsAuth(acc.c) ELSE @,
                 !.retVal = IF acc.fn = "UserID" THEN UserID(acc.c) ELSE @,
                 !.retInt = IF acc.fn = "UserIDInt" THEN UserIDInt(acc.c) ELSE @]
    /\ UNCHANGED <<phase, ac, log, opt, hFn, h, wsAuthSupported, newAuthErr,
                   selectorCalls, reqs, rem>>

\* c.Value(...) on a nil context.Context
AccessorPanic ==
    /\ acc.pc = "called"
    /\ AccessorPanics(acc.c)
    /\ acc' = [acc EXCEPT !.pc = "done", !.panicked = TRUE]
    /\ UNCHANGED <<phase, ac, log, opt, hFn, h, wsAuthSupported, newAuthErr,
                   selectorCalls, reqs, rem>>

(***************************************************************************)
(* remoteAPI.Resolve                                                       *)
(***************************************************************************)
\* a URL template in pieces, each "$id" placeholder a piece of its own
URLTemplates ==
    { <<"http://api/users/", "$id">>,
      <<"http://api/", "$id", "/friends/", "$id">>,
      <<"http://api/status">>,
      <<"http://api/%zz/", "$id">> }

RemoteHeaderNames == {"X-Token", "Accept"}

SetHeaderLists ==
    { <<>>,
      <<[Name |-> "X-Token", Value |-> "t0k"]>>,
      <<[Name |-> "Accept", Value |-> "application/json"],
        [Name |-> "X-Token", Value |-> "t0k"]>> }

RemoteAPIs == [URL : URLTemplates, Debug : BOOLEAN, SetHeaders : SetHeaderLists]

ResolverIDs == {"1", "42"}

ResolveContexts ==
    { NilCtx, RequestCtx("core"),
      WithValue(RequestCtx("core"), UserIDKey, StringVal("42")) }

\* strings.ReplaceAll(s, old, new)
ReplaceAll(tpl, old, new) ==
    [i \in 1..Len(tpl) |-> IF tpl[i] = old THEN new ELSE tpl[i]]

\* url.Parse inside http.NewRequestWithContext: an invalid escape fails
ParsesAsURL(uri) == \A i \in 1..Len(uri) : uri[i] # "http://api/%zz/"

NoRequest == [Method |-> "", URL |-> <<>>,
              Header |-> [n \in RemoteHeaderNames |-> <<>>], ctx |-> NilCtx]

\* http.NewRequestWithContext(c, method, uri, nil)
NewRequestWithContext(c, method, uri) ==
    IF c.nil
    THEN [req |-> NoRequest, err |-> [id |-> "http", msg |-> <<"net/http: nil Context">>]]
    ELSE IF ~ParsesAsURL(uri)
    THEN [req |-> NoRequest, err |-> [id |-> "url", msg |-> <<"invalid URL escape">>]]
    ELSE [req |-> [NoRequest EXCEPT !.Method = method, !.URL = uri, !.ctx = c],
          err |-> NilErr]

\* for _, v := range r.SetHeaders { req.Header.Set(v.Name, v.Value) }
RECURSIVE SetAll(_, _)
SetAll(hd, list) ==
    IF list = <<>> THEN hd
    ELSE SetAll([hd EXCEPT ![Head(list).Name] = <<Head(list).Value>>], Tail(list))

\* what client.Do and the reads of res.Body may bring
NoResponse == [connFail |-> TRUE, status |-> 0, body |-> "", readOK |-> FALSE]

Responses ==
    {NoResponse} \cup
    [connFail : {FALSE}, status : {200, 204, 404, 500},
     body : {"[1,2]", "{}", "[1,2", "oops"}, readOK : BOOLEAN]

\* jsn.ValidateBytes(b) = nil: the body is well-formed JSON
ValidateBytes(b) ==
    CASE b = "[1,2]" -> TRUE
      [] b = "{}"    -> TRUE
      [] b = "[1,2"  -> FALSE
      [] b = "oops"  -> FALSE

Failed(e) == [b |-> <<>>, err |-> e]

ResolveResultNoStatusCheck(api, uri, resp, dumpFails) ==
    IF resp.connFail
    THEN Failed(Errorf(<<"failed to connect to '">> \o uri \o <<"'">>))
    ELSE IF api.Debug /\ (dumpFails \/ ~resp.readOK)
    THEN Failed([id |-> "dump", msg |-> <<"dump failed">>])
    ELSE IF ~resp.readOK
    THEN Failed([id |-> "io", msg |-> <<"read failed">>])
    ELSE IF ~ValidateBytes(resp.body)
    THEN Failed([id |-> "jsn", msg |-> <<"invalid json">>])
    ELSE [b |-> <<resp.body>>, err |-> NilErr]

\* Resolve from client.Do on: the connection, the debug dumps (DumpResponse
\* reads the whole body), the status, io.ReadAll, jsn.ValidateBytes
ResolveResult(api, uri, resp, dumpFails) ==
    IF resp.connFail
    THEN Failed(Errorf(<<"failed to connect to '">> \o uri \o <<"'">>))
    ELSE IF api.Debug /\ (dumpFails \/ ~resp.readOK)
    THEN Failed([id |-> "dump", msg |-> <<"dump failed">>])
    ELSE IF resp.status # 200
    THEN Failed(Errorf(<<"server responded with a ", resp.status>>))
    ELSE IF ~resp.readOK
    THEN Failed([id |-> "io", msg |-> <<"read failed">>])
    ELSE IF ~ValidateBytes(resp.body)
    THEN Failed([id |-> "jsn", msg |-> <<"invalid json">>])
    ELSE [b |-> <<resp.body>>, err |-> NilErr]

IdleRem ==
    [pc |-> "idle", api |-> [URL |-> <<>>, Debug |-> FALSE, SetHeaders |-> <<>>],
     id |-> "", c |-> NilCtx, sent |-> <<>>, resp |-> NoResponse,
     dumped |-> FALSE, b |-> <<>>, err |-> NilErr]

\* Resolve up to client.Do(req); rr.Log is taken to be non-nil
ResolveCall ==
    /\ rem.pc \in {"idle", "done"}
    /\ \E api \in RemoteAPIs, id \in ResolverIDs, c \in ResolveContexts :
          LET uri == ReplaceAll(api.URL, "$id", id)
              nr  == NewRequestWithContext(c, "GET", uri)
              in  == [IdleRem EXCEPT !.api = api, !.id = id, !.c = c]
          IN  rem' = IF nr.err # NilErr
                     THEN [in EXCEPT !.pc = "done", !.err = nr.err]
                     ELSE [in EXCEPT
                             !.pc = "sent",
                             !.sent = <<[nr.req EXCEPT
                                           !.Header = SetAll(@, api.SetHeaders)]>>]
    /\ UNCHANGED <<phase, ac, log, opt, hFn, h, wsAuthSupported, newAuthErr,
                   selectorCalls, reqs, acc>>

\* Resolve from the return of client.Do(req) to its own return
ResolveReturn ==
    /\ rem.pc = "sent"
    /\ \E resp \in Responses, dumpFails \in BOOLEAN :
          LET out == ResolveResult(rem.api, rem.sent[1].URL, resp, dumpFails)
          IN  rem' = [rem EXCEPT
                        !.pc = "done", !.resp = resp,
                        !.dumped = rem.api.Debug /\ ~resp.connFail
                                   /\ ~dumpFails /\ resp.readOK,
                        !.b = out.b, !.err = out.err]
    /\ UNCHANGED <<phase, ac, log, opt, hFn, h, wsAuthSupported, newAuthErr,
                   selectorCalls, reqs, acc>>

(***************************************************************************)
(* NewAuth                                                                 *)
(***************************************************************************)
HandlerArgs == { <<>>, <<NilHandler>>, <<ExtHandler>> }

ExternalGivenAnyArg(fns) == Len(fns) # 0

\* len(hFn) != 0 && hFn[0] != nil
ExternalGiven(fns) == Len(fns) # 0 /\ fns[1] # NilHandler

NewAuth ==
    /\ phase = "boot"
    /\ \E a \in AuthConfigs, l \in BOOLEAN, o \in OptionsSet, fns \in HandlerArgs :
          /\ ac' = a /\ log' = l /\ opt' = o /\ hFn' = fns
          /\ IF ExternalGiven(fns)
             THEN /\ h' = fns[1]
                  /\ wsAuthSupported' = TRUE
                  /\ selectorCalls' = selectorCalls
                  /\ newAuthErr' = NilErr
                  /\ phase' = "ready"
             ELSE LET sel == NewAuthHandlerFunc(a)
                  IN  /\ selectorCalls' = selectorCalls + 1
                      /\ wsAuthSupported' = FALSE
                      /\ h' = IF sel.err # NilErr THEN NilHandler ELSE sel.h
                      /\ newAuthErr' = sel.err
                      /\ phase' = IF sel.err # NilErr THEN "failed" ELSE "ready"
    /\ UNCHANGED <<reqs, acc, rem>>

Workers == {"w1"}

Init ==
    /\ phase = "boot"
    /\ ac = [Development |-> FALSE, Name |-> "app", Type |-> "",
             Header |-> ZeroHeader, CapabilityOK |-> FALSE]
    /\ log = FALSE
    /\ opt = [AuthFailBlock |-> FALSE]
    /\ hFn = <<>>
    /\ h = NilHandler
    /\ wsAuthSupported = FALSE
    /\ newAuthErr = NilErr
    /\ selectorCalls = 0
    /\ reqs = [w \in Workers |-> IdleReq]
    /\ acc = IdleAcc
    /\ rem = IdleRem

Next ==
    \/ NewAuth
    \/ \E w \in DOMAIN reqs : Serve(w)
    \/ \E w \in DOMAIN reqs : Bypass(w)
    \/ \E w \in DOMAIN reqs : Authenticate(w)
    \/ \E w \in DOMAIN reqs : Reject(w)
    \/ \E w \in DOMAIN reqs : Panic(w)
    \/ \E w \in DOMAIN reqs : Forward(w)

Spec == Init /\ [][Next]_vars

(***************************************************************************)
(* One wrapper, built once, serving requests on several workers at once    *)
(***************************************************************************)
ConcWorkers == {"w1", "w2"}

DevelopmentConfig ==
    [Development |-> TRUE, Name |-> "app", Type |-> "",
     Header |-> ZeroHeader, CapabilityOK |-> FALSE]

HeaderValueConfig ==
    [Development |-> FALSE, Name |-> "app", Type |-> "header",
     Header |-> [Name |-> "X-Api-Key", Value |-> "secret", Exists |-> FALSE],
     CapabilityOK |-> FALSE]

\* NewAuth's arguments ac and hFn for the shared wrapper
SharedWrappers ==
    { <<DevelopmentConfig, <<>>>>,
      <<HeaderValueConfig, <<>>>>,
      <<HeaderValueConfig, <<ExtHandler>>>> }

\* the states NewAuth leaves for SharedWrappers
InitConc ==
    /\ \E sw \in SharedWrappers, o \in OptionsSet :
          /\ ac = sw[1] /\ opt = o /\ hFn = sw[2]
          /\ h = IF ExternalGiven(sw[2]) THEN sw[2][1]
                 ELSE NewAuthHandlerFunc(sw[1]).h
          /\ wsAuthSupported = ExternalGiven(sw[2])
          /\ selectorCalls = IF ExternalGiven(sw[2]) THEN 0 ELSE 1
    /\ phase = "ready"
    /\ log = TRUE
    /\ newAuthErr = NilErr
    /\ reqs = [w \in ConcWorkers |-> IdleReq]
    /\ acc = IdleAcc
    /\ rem = IdleRem

NextConc ==
    \/ \E w \in DOMAIN reqs : Serve(w)
    \/ \E w \in DOMAIN reqs : Bypass(w)
    \/ \E w \in DOMAIN reqs : Authenticate(w)
    \/ \E w \in DOMAIN reqs : Reject(w)
    \/ \E w \in DOMAIN reqs : Panic(w)
    \/ \E w \in DOMAIN reqs : Forward(w)

SpecConc == InitConc /\ [][NextConc]_vars

NextRemote == ResolveCall \/ ResolveReturn

SpecRemote == Init /\ [][NextRemote]_vars

NextAccessors == CallAccessor \/ AccessorReturns \/ AccessorPanic

SpecAccessors == Init /\ [][NextAccessors]_vars

(***************************************************************************)
(* Properties                                                              *)
(***************************************************************************)
Forwarded(q) == q.nextCalls = 1 /\ q.status = 0 /\ ~q.panicked

Rejected(q) ==
    /\ q.nextCalls = 0 /\ ~q.panicked
    /\ q.status = 401 /\ q.body = "401 unauthorized"

\* C1: every request the decorated handler has finished ended in exactly one
\* of: the downstream handler invoked, or a 401 written; never in a panic
\* and never in both.
C1_ForwardOrRejectOnly ==
    \A w \in DOMAIN reqs :
        reqs[w].pc = "done" =>
            /\ ~reqs[w].panicked
            /\ (reqs[w].nextCalls = 1 /\ reqs[w].status = 0)
               \/ (reqs[w].nextCalls = 0 /\ reqs[w].status = 401)

\* C2: once the strategy has returned Err401 for a request, the downstream
\* handler is not invoked for it, the only step the handler can take is the
\* 401 response, and the finished request carries status 401 with body
\* "401 unauthorized"; whatever AuthFailBlock is and whatever context came
\* with the error.
C2_SentinelRejects ==
    \A w \in DOMAIN reqs :
        (reqs[w].strategyCalls = 1 /\ reqs[w].err = Err401) =>
            /\ reqs[w].nextCalls = 0
            /\ ~reqs[w].panicked
            /\ reqs[w].pc \in {"decide", "done"}
            /\ reqs[w].pc = "decide" =>
                  ENABLED Reject(w) /\ ~ENABLED Forward(w) /\ ~ENABLED Panic(w)
            /\ reqs[w].pc = "done" => Rejected(reqs[w])

C2_Witness ==
    \E w \in DOMAIN reqs :
        /\ reqs[w].pc = "done" /\ reqs[w].err = Err401
        /\ ~opt.AuthFailBlock
        /\ reqs[w].c.vals[UserIDKey] # <<>>
        /\ reqs[w].status = 401

\* C3: with AuthFailBlock=true, a request that was not bypassed and was
\* forwarded has a non-nil strategy context with UserID set, and that is the
\* context the downstream handler received.
C3_FailBlockForwardsOnlyIdentified ==
    \A w \in DOMAIN reqs :
        ( /\ opt.AuthFailBlock
          /\ reqs[w].nextCalls > 0
          /\ ~(wsAuthSupported /\ IsWebSocketUpgrade(reqs[w].r)) ) =>
            /\ ~reqs[w].c.nil
            /\ reqs[w].c.vals[UserIDKey] # <<>>
            /\ reqs[w].nextReq.ctx.vals[UserIDKey] # <<>>

C3_Witness ==
    \E w \in DOMAIN reqs :
        /\ opt.AuthFailBlock
        /\ reqs[w].pc = "done" /\ reqs[w].nextCalls = 1
        /\ reqs[w].strategyCalls = 1
        /\ reqs[w].err = ErrOther

\* C4: in a wrapper built with an external non-nil strategy, a WebSocket
\* upgrade request never has the strategy invoked, nothing logged and no 401
\* written; on entry its only step is the bypass, and when finished it was
\* forwarded once with the request (and its context) unmodified.
C4_UpgradeBypassed ==
    \A w \in DOMAIN reqs :
        ( /\ hFn = <<ExtHandler>>
          /\ reqs[w].pc # "idle"
          /\ IsWebSocketUpgrade(reqs[w].r) ) =>
            /\ reqs[w].strategyCalls = 0
            /\ reqs[w].logged = <<>>
            /\ reqs[w].status = 0 /\ ~reqs[w].panicked
            /\ reqs[w].pc \in {"entry", "done"}
            /\ reqs[w].pc = "entry" => ENABLED Bypass(w) /\ ~ENABLED Authenticate(w)
            /\ reqs[w].pc = "done" =>
                  reqs[w].nextCalls = 1 /\ reqs[w].nextReq = reqs[w].r

C4_Witness ==
    \E w \in DOMAIN reqs :
        /\ hFn = <<ExtHandler>> /\ opt.AuthFailBlock
        /\ reqs[w].pc = "done"
        /\ IsWebSocketUpgrade(reqs[w].r)
        /\ reqs[w].nextCalls = 1

\* C5: in a wrapper built from a Header configuration, for either value of
\* AuthFailBlock: with Exists=true a finished request whose named header has
\* a value was forwarded and one without the header got 401; with
\* Exists=false and a Value, a finished request whose header equals Value was
\* forwarded and one whose header differs or is absent got 401.
C5_HeaderWrapperForwardsOrRejects ==
    \A w \in DOMAIN reqs :
        (h.kind = "header" /\ reqs[w].pc = "done") =>
            LET v == HeaderGet(reqs[w].r.Header, h.hdr.Name)
            IN  /\ (h.hdr.Exists /\ v # "") => Forwarded(reqs[w])
                /\ (h.hdr.Exists /\ ~HeaderPresent(reqs[w].r.Header, h.hdr.Name))
                      => Rejected(reqs[w])
                /\ (~h.hdr.Exists /\ v = h.hdr.Value) => Forwarded(reqs[w])
                /\ (~h.hdr.Exists /\ v # h.hdr.Value) => Rejected(reqs[w])

\* the integer a decimal user-id header stands for
HeaderInteger(s) ==
    CASE s = "42" -> 42
      [] s = "7"  -> 7
      [] s = "-7" -> 0 - 7

\* C6: in a wrapper using the Simple strategy, the strategy returns no
\* error; a finished request with a non-empty X-User-ID header was forwarded
\* and the downstream context has IsAuth true and, for a decimal header,
\* UserIDInt equal to its value; a finished request with none of the three
\* identity headers got 401 under AuthFailBlock=true and was forwarded with
\* IsAuth false under AuthFailBlock=false.
C6_SimpleWrapper ==
    \A w \in DOMAIN reqs :
        (h.kind = "simple" /\ reqs[w].pc # "idle") =>
            LET q   == reqs[w]
                uid == HeaderGet(q.r.Header, "X-User-ID")
                noIdentity ==
                    \A n \in {"X-User-ID", "X-User-ID-Provider", "X-User-Role"} :
                        q.r.Header[n] = <<>>
            IN  /\ q.err = NilErr
                /\ (q.pc = "done" /\ uid # "") =>
                      /\ Forwarded(q)
                      /\ IsAuth(q.nextReq.ctx)
                      /\ uid \in {"42", "7", "-7"} =>
                            UserIDInt(q.nextReq.ctx) = HeaderInteger(uid)
                /\ (q.pc = "done" /\ noIdentity /\ opt.AuthFailBlock) => Rejected(q)
                /\ (q.pc = "done" /\ noIdentity /\ ~opt.AuthFailBlock) =>
                      Forwarded(q) /\ ~IsAuth(q.nextReq.ctx)

C6_Witness ==
    \E w \in DOMAIN reqs :
        /\ h.kind = "simple" /\ opt.AuthFailBlock
        /\ reqs[w].pc = "done"
        /\ HeaderGet(reqs[w].r.Header, "X-User-ID") = "42"
        /\ reqs[w].nextCalls = 1
        /\ UserIDInt(reqs[w].nextReq.ctx) = 42

\* NewAuth ran the selector on ac (no external strategy took its place)
SelectorRan == phase # "boot" /\ selectorCalls = 1

ProducedStrategy == phase = "ready" /\ newAuthErr = NilErr /\ h # NilHandler

ConfigError == phase = "failed" /\ newAuthErr # NilErr /\ h = NilHandler

C8_DevelopmentSelectsSimple ==
    SelectorRan =>
        /\ ac.Development => ProducedStrategy /\ h.kind = "simple"
        /\ h.kind = "simple" => ac.Development

C8_Witness ==
    /\ SelectorRan /\ ac.Development
    /\ ac.Type = "header" /\ ac.Header.Name = ""
    /\ h.kind = "simple" /\ phase = "ready"

\* C9: with Development=false the selector returns ErrNoAuthDefined exactly
\* when Type is "" or "none", and for a Type outside {"", "none", "rails",
\* "jwt", "header"} another error, naming the unknown type; in both cases no
\* strategy.
C9_NoAuthAndUnknownType ==
    (SelectorRan /\ ~ac.Development) =>
        /\ newAuthErr = ErrNoAuthDefined <=> ac.Type \in {"", "none"}
        /\ ac.Type \in {"", "none"} => ConfigError
        /\ ac.Type \notin {"", "none", "rails", "jwt", "header"} =>
              /\ ConfigError
              /\ newAuthErr # ErrNoAuthDefined
              /\ newAuthErr.msg = <<"auth: unknown auth type: ", ac.Type>>

C9_Witness ==
    /\ SelectorRan /\ ~ac.Development
    /\ ac.Type = "magiclink"
    /\ phase = "failed"
    /\ newAuthErr.msg = <<"auth: unknown auth type: ", "magiclink">>

RequestSeen == \E w \in DOMAIN reqs : reqs[w].pc # "idle"

\* C10 as stated: for every AuthConfig for which the selector yields an
\* error, NewAuth returned that error and no decorator, and no request is
\* processed by a wrapper with such an AuthConfig; the selector is evaluated
\* once at construction and never per request.
C10_ConfigErrorAbortsStartup ==
    phase # "boot" =>
        /\ NewAuthHandlerFunc(ac).err # NilErr =>
              /\ phase = "failed"
              /\ newAuthErr = NewAuthHandlerFunc(ac).err
              /\ ~RequestSeen
        /\ selectorCalls <= 1

\* C10 as amended: when NewAuth is given no external non-nil strategy, it
\* evaluates the selector exactly once, and for every AuthConfig for which
\* the selector yields an error it returns that error and no decorator, so no
\* request is processed; when it is given an external non-nil strategy it
\* never evaluates the selector and returns a decorator whatever the
\* AuthConfig.  Serving requests never evaluates the selector.
C10_ConfigErrorAbortsUnlessExternal ==
    phase # "boot" =>
        /\ hFn # <<ExtHandler>> =>
              /\ selectorCalls = 1
              /\ NewAuthHandlerFunc(ac).err # NilErr =>
                    /\ phase = "failed"
                    /\ newAuthErr = NewAuthHandlerFunc(ac).err
                    /\ h = NilHandler
                    /\ ~RequestSeen
              /\ NewAuthHandlerFunc(ac).err = NilErr => phase = "ready"
        /\ hFn = <<ExtHandler>> =>
              selectorCalls = 0 /\ phase = "ready" /\ newAuthErr = NilErr

C10_Witness ==
    /\ phase = "failed" /\ hFn = <<NilHandler>>
    /\ ~ac.Development /\ ac.Type = "rails"
    /\ newAuthErr # NilErr /\ newAuthErr # ErrNoAuthDefined
    /\ selectorCalls = 1

\* C11: UserIDInt never raises, for any context: it returns -1 when the
\* context is absent, when UserID is absent, not a string, empty or not a
\* decimal integer, and the integer value of UserID otherwise.
C11_UserIDIntNeverRaises ==
    (acc.fn = "UserIDInt" /\ acc.pc = "done") =>
        /\ ~acc.panicked
        /\ acc.retInt =
              IF acc.c.nil \/ acc.c.vals[UserIDKey] = <<>> THEN -1
              ELSE IF acc.c.vals[UserIDKey][1].t # "string" THEN -1
              ELSE IF acc.c.vals[UserIDKey][1].s \in {"42", "7", "-7"}
                   THEN HeaderInteger(acc.c.vals[UserIDKey][1].s)
              ELSE -1

\* the identity the Simple strategy derives from one request's headers
OwnIdentity(hd) ==
    [k \in CtxKeys |->
        LET v == HeaderGet(hd, CASE k = UserIDKey         -> "X-User-ID"
                                 [] k = UserIDProviderKey -> "X-User-ID-Provider"
                                 [] k = UserRoleKey       -> "X-User-Role")
        IN  IF v = "" THEN <<>> ELSE <<[t |-> "string", s |-> v]>>]

\* C12: with requests served concurrently by one shared wrapper, the context
\* the strategy returned for a request and the context the downstream
\* handler received are that request's own: under the Simple strategy the
\* identity is exactly what the request's own headers say, under every
\* strategy the context descends from the request's own context and the
\* headers passed on are its own; and no step of any request changes the
\* shared configuration, options or strategy.
C12_RequestsDoNotInterfere ==
    /\ [](\A w \in DOMAIN reqs :
            LET q == reqs[w]
            IN  /\ (q.strategyCalls = 1 /\ ~q.c.nil) => q.c.origin = w
                /\ (q.strategyCalls = 1 /\ h.kind = "simple") =>
                      ~q.c.nil /\ q.c.vals = OwnIdentity(q.r.Header)
                /\ q.nextCalls > 0 =>
                      /\ q.nextReq.Header = q.r.Header
                      /\ q.nextReq.ctx.origin = w
                      /\ h.kind = "simple" =>
                            q.nextReq.ctx.vals = OwnIdentity(q.r.Header))
    /\ [][UNCHANGED <<phase, ac, log, opt, hFn, h, wsAuthSupported>>]_vars

C12_Witness ==
    /\ h.kind = "simple"
    /\ reqs["w1"].pc = "done" /\ reqs["w1"].nextCalls = 1
    /\ reqs["w2"].pc = "done" /\ reqs["w2"].nextCalls = 1
    /\ reqs["w1"].nextReq.ctx.vals[UserIDKey] = <<StringVal("42")>>
    /\ reqs["w2"].nextReq.ctx.vals[UserIDKey] = <<StringVal("-7")>>
    /\ reqs["w2"].nextReq.ctx.vals[UserRoleKey] = <<StringVal("admin")>>
    /\ reqs["w1"].nextReq.ctx.vals[UserRoleKey] = <<>>

\* C13: when the strategy returned an error other than Err401, the error is
\* logged with the configured type (given a logger) and the finished request
\* was forwarded if AuthFailBlock=false or the returned context has UserID
\* set, and got 401 if AuthFailBlock=true and the returned context lacks
\* UserID or no context was returned.
C13_SoftErrorFollowsFailBlock ==
    \A w \in DOMAIN reqs :
        LET q       == reqs[w]
            hasUser == ~q.c.nil /\ q.c.vals[UserIDKey] # <<>>
        IN  (q.strategyCalls = 1 /\ q.err # NilErr /\ q.err # Err401) =>
                /\ log => q.logged = <<[type |-> ac.Type, err |-> q.err]>>
                /\ (q.pc = "done" /\ (~opt.AuthFailBlock \/ hasUser)) => Forwarded(q)
                /\ (q.pc = "done" /\ opt.AuthFailBlock /\ ~hasUser) => Rejected(q)

C15_ForwardAttachesStrategyContext ==
    \A w \in DOMAIN reqs :
        (reqs[w].strategyCalls = 1 /\ reqs[w].nextCalls > 0) =>
            /\ reqs[w].nextReq.Header = reqs[w].r.Header
            /\ ~reqs[w].c.nil => reqs[w].nextReq.ctx = reqs[w].c
            /\ reqs[w].c.nil => reqs[w].nextReq.ctx = reqs[w].r.ctx

C15_Witness ==
    \E w \in DOMAIN reqs :
        /\ reqs[w].strategyCalls = 1 /\ reqs[w].nextCalls = 1
        /\ h.kind = "ext"
        /\ ~reqs[w].c.nil
        /\ reqs[w].c # reqs[w].r.ctx
        /\ reqs[w].nextReq.ctx = reqs[w].c

\* C16: per request the strategy is invoked at most once and the downstream
\* handler at most once; a request that is not bypassed has had the strategy
\* invoked exactly once before a 401 is written or the downstream handler is
\* invoked (or the handler ends otherwise), and once the strategy has
\* returned it cannot be invoked again for that request.
C16_StrategyOnceBeforeOutcome ==
    \A w \in DOMAIN reqs :
        LET q        == reqs[w]
            bypassed == wsAuthSupported /\ IsWebSocketUpgrade(q.r)
        IN  /\ q.strategyCalls <= 1
            /\ q.nextCalls <= 1
            /\ (~bypassed /\ (q.status # 0 \/ q.nextCalls > 0 \/ q.pc = "done")) =>
                  q.strategyCalls = 1
            /\ q.pc = "decide" =>
                  q.strategyCalls = 1 /\ q.nextCalls = 0 /\ q.status = 0
            /\ q.strategyCalls = 1 => ~ENABLED Authenticate(w)
            /\ q.pc = "done" =>
                  ~ENABLED Bypass(w) /\ ~ENABLED Forward(w) /\ ~ENABLED Reject(w)

C16_Witness ==
    \E w \in DOMAIN reqs :
        /\ reqs[w].pc = "done"
        /\ h.kind = "header" /\ ~opt.AuthFailBlock
        /\ reqs[w].strategyCalls = 1 /\ reqs[w].nextCalls = 1
        /\ reqs[w].err = NilErr

\* C17: a wrapper built without an external non-nil strategy (none passed,
\* or nil passed) never bypasses an upgrade request: the selected strategy
\* is invoked for it and Err401 and AuthFailBlock decide as for any request.
\* A wrapper built with an external non-nil strategy never evaluated the
\* selector, is ready without error whatever the AuthConfig, and invokes
\* that strategy for every request that is not an upgrade.
C17_BypassOnlyWithExternal ==
    phase # "boot" =>
        /\ hFn # <<ExtHandler>> =>
              \A w \in DOMAIN reqs :
                  LET q == reqs[w]
                  IN  (q.pc # "idle" /\ IsWebSocketUpgrade(q.r)) =>
                        /\ q.pc = "entry" =>
                              ~ENABLED Bypass(w) /\ ENABLED Authenticate(w)
                        /\ q.pc # "entry" => q.strategyCalls = 1
                        /\ (q.pc = "done" /\ q.err = Err401) => Rejected(q)
                        /\ (q.pc = "done" /\ q.err # Err401 /\ ~opt.AuthFailBlock)
                              => Forwarded(q)
                        /\ (q.pc = "done" /\ q.err # Err401 /\ opt.AuthFailBlock
                              /\ ~q.c.nil) =>
                              IF q.c.vals[UserIDKey] # <<>> THEN Forwarded(q)
                              ELSE Rejected(q)
        /\ hFn = <<ExtHandler>> =>
              /\ selectorCalls = 0 /\ phase = "ready" /\ newAuthErr = NilErr
              /\ h = ExtHandler
              /\ \A w \in DOMAIN reqs :
                    LET q == reqs[w]
                    IN  (q.pc # "idle" /\ ~IsWebSocketUpgrade(q.r)) =>
                          /\ q.pc = "entry" =>
                                ~ENABLED Bypass(w) /\ ENABLED Authenticate(w)
                          /\ q.pc # "entry" => q.strategyCalls = 1

C17_Witness ==
    \E w \in DOMAIN reqs :
        /\ hFn = <<NilHandler>> /\ h.kind = "header"
        /\ IsWebSocketUpgrade(reqs[w].r)
        /\ reqs[w].pc = "done"
        /\ reqs[w].strategyCalls = 1
        /\ reqs[w].status = 401

\* C18: Resolve sends at most one request, a GET to the URL template with
\* every $id replaced by the request ID, carrying every configured header
\* and the caller's context as it was; it returns either a body or an error,
\* never both and never neither; it returns a body only if the response
\* came, had status 200, could be read and is well-formed JSON, and the
\* body returned is the response's; on a connection failure, another status,
\* a read failure or malformed JSON it returns an error and no body.
C18_ResolveBodyOnlyOn200Json ==
    /\ Len(rem.sent) <= 1
    /\ Len(rem.sent) = 1 =>
          /\ rem.sent[1].Method = "GET"
          /\ Len(rem.sent[1].URL) = Len(rem.api.URL)
          /\ \A i \in 1..Len(rem.api.URL) :
                rem.sent[1].URL[i] =
                    IF rem.api.URL[i] = "$id" THEN rem.id ELSE rem.api.URL[i]
          /\ \A i \in 1..Len(rem.api.SetHeaders) :
                rem.sent[1].Header[rem.api.SetHeaders[i].Name]
                    = <<rem.api.SetHeaders[i].Value>>
          /\ \A n \in RemoteHeaderNames :
                (\A i \in 1..Len(rem.api.SetHeaders) : rem.api.SetHeaders[i].Name # n)
                    => rem.sent[1].Header[n] = <<>>
          /\ rem.sent[1].ctx = rem.c
    /\ rem.pc = "done" =>
          /\ (rem.err = NilErr) # (rem.b = <<>>)
          /\ rem.err = NilErr =>
                /\ Len(rem.sent) = 1
                /\ ~rem.resp.connFail
                /\ rem.resp.status = 200
                /\ rem.resp.readOK
                /\ rem.resp.body \in {"[1,2]", "{}"}
                /\ rem.b = <<rem.resp.body>>
          /\ ( \/ rem.resp.connFail
               \/ rem.resp.status # 200
               \/ ~rem.resp.readOK
               \/ rem.resp.body \in {"[1,2", "oops"} ) =>
                rem.err # NilErr /\ rem.b = <<>>

C18_Witness ==
    /\ rem.pc = "done" /\ rem.err = NilErr
    /\ rem.api.Debug /\ rem.dumped
    /\ rem.api.URL = <<"http://api/", "$id", "/friends/", "$id">>
    /\ rem.sent[1].URL = <<"http://api/", "42", "/friends/", "42">>
    /\ Len(rem.api.SetHeaders) = 2
    /\ rem.c.vals[UserIDKey] # <<>>
    /\ rem.b = <<"{}">>

====
